---- MODULE Spec2Model ----
(***************************************************************************)
(* Model of collector/collector.py: the polling loop of __main__, the      *)
(* process pool it submits the three collectors to, and the collectors     *)
(* collect_storage_metrics, collect_system_state, collect_major_event_log  *)
(* with the upstream proxy (SANtricity web services) and the store         *)
(* (InfluxDB) they talk to.                                                *)
(***************************************************************************)
EXTENDS Integers, Sequences, FiniteSets, TLC

----------------------------------------------------------------------------
(* Bounds of the model *)

\* upstream events that may accumulate, over all arrays
MaxEvents == 4
\* epoch-second timestamps an upstream event may carry: 1..MaxTime
MaxTime == 2
\* failures the upstream reports at a time, over all arrays
MaxFailures == 2
\* CMD.intervalTime is drawn from 1..MaxInterval
MaxInterval == 2
\* measured tick duration is drawn from -1..MaxElapsed
MaxElapsed == 3
\* per-record write counters saturate here
MaxCount == 2
\* sequence id of the first upstream event
FirstSeq == 10

\* the batch ceiling, mel_grab_count of line 350 (8192 there), at the scale of the model
mel_grab_count == 2
\* the size of the worker pool, NUMBER_OF_THREADS of line 105 (10 there), at the
\* scale of the model: smaller than the largest list of storage systems
NUMBER_OF_THREADS == 2
\* drives and volumes the arrays report, over all arrays
MaxDrives == 2
MaxVolumes == 1
\* calls that may hang at a time
MaxHung == 1

(* Program constants *)

\* collector.py:349, the "from the beginning" start sequence number
FROM_BEGINNING == -1

\* the storage systems the proxy lists, and those of a larger installation
Registered == {"A1", "A2"}
Arrays == Registered \cup {"A3"}
\* the key of the JSON object a proxy answers an error with; iterating the
\* decoded body of a non-200 answer yields keys, not storage systems
BadKey == "errorMessage"
Systems == Arrays \cup {BadKey}

\* failure identity tuples the upstream may report
FailureSet ==
    {[failureType |-> "drive", objectRef |-> r, objectType |-> "disk"] : r \in {"R1", "R2"}}

\* lines 38-92, two names of each list
DRIVE_PARAMS == {"readIOps", "writeIOps"}
SYSTEM_PARAMS == {"maxCpuUtilization", "cpuAvgUtilization"}
VOLUME_PARAMS == {"readIOps", "flashCacheHitPct"}

----------------------------------------------------------------------------
VARIABLES
    pc,               \* position of the __main__ loop
    interval,         \* CMD.intervalTime
    doNotPost,        \* CMD.doNotPost
    time_difference,  \* time.time() - time_start, line 515
    wait_time,        \* line 523/528
    warned,           \* the "interval not long enough" line was logged this tick
    storageList,      \* what the loop iterates over, line 492
    task,             \* the futures of the pool, per collector kind and system
    local,            \* locals of a running collector, per collector kind and system
    result,           \* observer: how each call of the current lists ended
    restarted,        \* observer: the process was killed and started again
    driveUp,          \* upstream: drive statistics and inventory of each array
    volumeUp,         \* upstream: volume statistics of each array
    melUp,            \* upstream: the major event log of each array
    failUp,           \* upstream: the current failure list of each array
    major_event_log,  \* store: rows of measurement major_event_log
    failures,         \* store: rows of measurement failures
    melWrites,        \* observer: how often an event id was written, per array
    failWrites,       \* observer: how often an identity tuple was written, per array
    gone              \* observer: stored failures the upstream stopped reporting, per array

vars == <<pc, interval, doNotPost, time_difference, wait_time, warned, storageList, task,
          local, result, restarted, driveUp, volumeUp, melUp, failUp, major_event_log,
          failures, melWrites, failWrites, gone>>

schedVars == <<interval, doNotPost, time_difference, wait_time, warned>>
upVars == <<melUp, failUp, driveUp, volumeUp>>
storeVars == <<major_event_log, failures, melWrites, failWrites>>
obsVars == <<restarted, gone>>

----------------------------------------------------------------------------
(* Helpers *)

Phases == {"metrics", "state", "mel"}

NoLocal == [query |-> {}, start_from |-> FROM_BEGINNING, response |-> <<>>, json_body |-> <<>>]

Min(a, b) == IF a < b THEN a ELSE b

Count(seq, x) == Cardinality({i \in DOMAIN seq : seq[i] = x})

Range(seq) == {seq[i] : i \in DOMAIN seq}

SeqsUpTo(S, n) == UNION {[1..k -> S] : k \in 0..n}

EventIds == FirstSeq..(FirstSeq + MaxEvents - 1)

TotalEvents == LET RECURSIVE Sum(_)
                   Sum(S) == IF S = {} THEN 0
                             ELSE LET a == CHOOSE x \in S : TRUE
                                  IN Len(melUp[a]) + Sum(S \ {a})
               IN Sum(Arrays)


\* the calls that hold a worker: the ones that run and the ones that hang
RunningTasks == {ks \in Phases \X Systems : task[ks[1]][ks[2]] \in {"running", "hung"}}

\* a pool that starts every queued call at once
WorkerAlwaysFree == TRUE

\* ProcessPoolExecutor(NUMBER_OF_THREADS): a queued call starts when a worker is free
WorkerFree == Cardinality(RunningTasks) < NUMBER_OF_THREADS

\* [executor.submit(f, sys) for sys in storageList]
Submit(list) == [s \in Systems |-> IF s \in list THEN "queued" ELSE "none"]

\* the futures of a list the loop no longer holds: the finished ones are gone
Dropped(kind) ==
    [s \in Systems |-> IF task[kind][s] \in {"done", "raised"} THEN "none" ELSE task[kind][s]]

\* the frames of the finished tasks of a phase are gone with their futures
Released(kind) ==
    [s \in Systems |-> IF task[kind][s] \in {"done", "raised"} THEN NoLocal ELSE local[kind][s]]

\* a wait that returns with the first finished future (return_when=FIRST_COMPLETED)
FirstCompleted(kind) ==
    storageList = {} \/ \E s \in storageList : task[kind][s] \in {"done", "raised"}

\* a wait that returns at once (timeout=0)
ReturnsAtOnce(kind) == kind \in Phases

\* concurrent.futures.wait(collector), return_when=ALL_COMPLETED: every future
\* of the list is finished, with a result or with an exception
AllCompleted(kind) == \A s \in storageList : task[kind][s] \in {"done", "raised"}

\* an exception that takes the pool down: the calls still queued are cancelled
RaiseBreaksPool(kind, s) ==
    [k \in Phases |-> [x \in Systems |->
        IF k = kind /\ x = s THEN "raised"
        ELSE IF task[k][x] = "queued" THEN "cancelled" ELSE task[k][x]]]

\* what the futures become when a call raises: the exception is kept in its
\* future, the other futures of the pool are not touched
RaiseOutcome(kind, s) == [task EXCEPT ![kind][s] = "raised"]

----------------------------------------------------------------------------
(* The store and the upstream, as the collectors use them *)

\* the row with the latest time: "ORDER BY time DESC LIMIT 1" over the rows of
\* one array; rows that share the latest time are ordered by the store
QueryLastMel(sys_id) ==
    LET rows == {r \in major_event_log : r.sys_id = sys_id}
    IN {r \in rows : \A o \in rows : o.time <= r.time}

\* lines 349-354
StartFrom(query) ==
    IF query = {} THEN FROM_BEGINNING ELSE (CHOOSE r \in query : TRUE).id + 1

\* GET mel-events?count=..&startSequenceNumber=..: the first count events of
\* the log whose sequence number is at least start
MelEvents(log, count, start) ==
    LET from == SelectSeq(log, LAMBDA e : e.id >= start)
    IN SubSeq(from, 1, Min(count, Len(from)))

\* lines 361-382: one point per returned event, id a field, time from timeStamp
MelBody(sys_id, mel_response) ==
    [i \in DOMAIN mel_response |->
        [sys_id |-> sys_id, id |-> mel_response[i].id, time |-> mel_response[i].timeStamp]]

\* the query without its WHERE sys_id=: the rows of every array
QueryEveryArray(sys_id) == {r \in failures : sys_id \in Systems}

\* a query bounded in time (WHERE time > now() - ..) that the stored rows have left
QueryWithinWindow(sys_id) == {r \in failures : r.sys_id = sys_id /\ r.sys_id \notin Arrays}

\* line 408: SELECT * FROM failures WHERE sys_id='..'
QueryFailures(sys_id) == {r \in failures : r.sys_id = sys_id}

\* the comparison with two tags mixed up: the reference against the stored type
FoundMixedUp(query, failure) ==
    \E point \in query :
        /\ failure.failureType = point.failure_type
        /\ failure.objectRef = point.object_type
        /\ failure.objectType = point.object_ref

\* lines 418-423
Found(query, failure) ==
    \E point \in query :
        /\ failure.failureType = point.failure_type
        /\ failure.objectRef = point.object_ref
        /\ failure.objectType = point.object_type

\* lines 426-439, the tags of the point
FailureItem(sys_id, failure) ==
    [sys_id |-> sys_id, failure_type |-> failure.failureType,
     object_ref |-> failure.objectRef, object_type |-> failure.objectType]

\* lines 411-442: the new failures, in the order of the response
NewFailures(sys_id, query, failure_response) ==
    LET new == SelectSeq(failure_response, LAMBDA f : ~Found(query, f))
    IN [i \in DOMAIN new |-> FailureItem(sys_id, new[i])]

Bump(n, k) == Min(n + k, MaxCount)

None == "null"

\* lines 216-233 get_drive_location: the pair (tray id, slot) of a drive; a
\* drive the inventory does not list has no entry (<<>> stands for None), a
\* drive whose tray is unknown gets the tray id None (tray_ids.get)
DriveLocation(stats) ==
    IF stats.where = "absent" THEN <<>>
    ELSE <<IF stats.where = "tray" THEN <<1>> ELSE <<>>, <<stats.diskId>>>>

\* lines 271-272: disk_location_info[0] and the {:02.0f} format need a number
Formats(disk_location_info) ==
    disk_location_info # <<>> /\ disk_location_info[1] # <<>>

\* the first drive of the list whose location does not format, 0 when all do
FirstUnformatted(drive_stats_list) ==
    LET bad == {i \in DOMAIN drive_stats_list : ~Formats(DriveLocation(drive_stats_list[i]))}
    IN IF bad = {} THEN 0 ELSE CHOOSE i \in bad : \A j \in bad : i <= j

\* lines 275, 293, 316: dict((metric, stats.get(metric)) for metric in PARAMS)
Fields(params, stats) == [metric \in params |-> IF metric \in stats.has THEN "v" ELSE None]

\* lines 264-280
DiskItems(sys_id, drive_stats_list) ==
    [i \in DOMAIN drive_stats_list |->
        [measurement |-> "disks", sys_id |-> sys_id,
         fields |-> Fields(DRIVE_PARAMS, drive_stats_list[i])]]

\* lines 286-298
SysItem(sys_id) ==
    [measurement |-> "systems", sys_id |-> sys_id,
     fields |-> Fields(SYSTEM_PARAMS, [has |-> SYSTEM_PARAMS])]

\* lines 307-321
VolItems(sys_id, volume_stats_list) ==
    [i \in DOMAIN volume_stats_list |->
        [measurement |-> "volumes", sys_id |-> sys_id,
         fields |-> Fields(VOLUME_PARAMS, volume_stats_list[i])]]

\* lines 253-321
MetricsBody(sys_id, drive_stats_list, volume_stats_list) ==
    DiskItems(sys_id, drive_stats_list) \o <<SysItem(sys_id)>>
        \o VolItems(sys_id, volume_stats_list)

\* how the write of a task ends: lines 323-324 skip it when CMD.doNotPost,
\* lines 384 and 447 call write_points whatever the flag
WriteOutcome(kind) ==
    IF kind = "metrics" /\ doNotPost THEN "skipped" ELSE "wrote"

----------------------------------------------------------------------------
\* lines 108-171: the command line is parsed; lines 456-479: the pool is made
Started(flag) ==
    /\ pc = "tick"
    /\ interval \in 1..MaxInterval
    /\ doNotPost = flag
    /\ time_difference = 0
    /\ wait_time = 0
    /\ warned = FALSE
    /\ storageList = {}
    /\ task = [k \in Phases |-> [s \in Systems |-> "none"]]
    /\ local = [k \in Phases |-> [s \in Systems |-> NoLocal]]
    /\ result = [k \in Phases |-> [s \in Systems |-> "none"]]
    /\ restarted = FALSE
    /\ driveUp = [a \in Arrays |-> <<>>]
    /\ volumeUp = [a \in Arrays |-> <<>>]
    /\ melUp = [a \in Arrays |-> <<>>]
    /\ failUp = [a \in Arrays |-> <<>>]
    /\ major_event_log = {}
    /\ failures = {}
    /\ melWrites = [a \in Arrays |-> [i \in EventIds |-> 0]]
    /\ failWrites = [a \in Arrays |-> [f \in FailureSet |-> 0]]
    /\ gone = [a \in Arrays |-> {}]

\* line 155: --doNotPost is off unless given
Init == Started(FALSE)

\* the collector started with --doNotPost
InitDryRun == Started(TRUE)

----------------------------------------------------------------------------
(* The __main__ loop, lines 481-529 *)

\* lines 484-504: status 200, the body is the list of storage systems
ListSystems(list) ==
    /\ pc = "tick"
    /\ storageList' = list
    /\ task' = [task EXCEPT !["metrics"] = Submit(list)]
    /\ pc' = "metrics"
    /\ UNCHANGED <<schedVars, local, result, upVars, storeVars, obsVars>>

ListOk == ListSystems(Registered)

\* the same answer of a proxy with one more array
ListFleet == ListSystems(Arrays)

\* lines 485-492: a status other than 200 is logged, and the else branch still
\* decodes the body; a JSON object iterates as its keys
ListNon200Json ==
    /\ pc = "tick"
    /\ storageList' = {BadKey}
    /\ task' = [task EXCEPT !["metrics"] = Submit({BadKey})]
    /\ pc' = "metrics"
    /\ UNCHANGED <<schedVars, local, upVars, storeVars, result, obsVars>>

\* lines 485-492: a status other than 200 whose body is no JSON; response.json()
\* raises in the else branch, which no except clause of the try covers
ListNon200NotJson ==
    /\ pc = "tick"
    /\ pc' = "terminated"
    /\ UNCHANGED <<schedVars, storageList, task, local, upVars, storeVars, result, obsVars>>

\* lines 487-490: SESSION.get raises (connection error); logged, no task submitted
ListRaises ==
    /\ pc = "tick"
    /\ pc' = "timing"
    /\ UNCHANGED <<schedVars, storageList, task, local, upVars, storeVars, result, obsVars>>

\* lines 505-508: the metrics futures are all finished, submit the state collectors
WaitMetrics ==
    /\ pc = "metrics"
    /\ AllCompleted("metrics")
    /\ task' = [task EXCEPT !["metrics"] = Dropped("metrics"), !["state"] = Submit(storageList)]
    /\ pc' = "state"
    /\ result' = [result EXCEPT !["metrics"] = [x \in Systems |-> "none"]]
    /\ local' = [local EXCEPT !["metrics"] = Released("metrics")]
    /\ UNCHANGED <<schedVars, storageList, upVars, storeVars, obsVars>>

\* lines 509-512: the state futures are all finished, submit the MEL collectors
WaitState ==
    /\ pc = "state"
    /\ AllCompleted("state")
    /\ task' = [task EXCEPT !["state"] = Dropped("state"), !["mel"] = Submit(storageList)]
    /\ pc' = "mel"
    /\ result' = [result EXCEPT !["state"] = [x \in Systems |-> "none"]]
    /\ UNCHANGED <<schedVars, storageList, local, upVars, storeVars, obsVars>>

\* line 513: the MEL futures are all finished
WaitMel ==
    /\ pc = "mel"
    /\ AllCompleted("mel")
    /\ task' = [task EXCEPT !["mel"] = Dropped("mel")]
    /\ pc' = "timing"
    /\ result' = [result EXCEPT !["mel"] = [x \in Systems |-> "none"]]
    /\ UNCHANGED <<schedVars, storageList, local, upVars, storeVars, obsVars>>

\* the test with the boundary on the other side
IntervalNotLonger(intervalTime, elapsed) == intervalTime <= elapsed

\* line 524: the test that guards the log line and the replacement of wait_time
IntervalTooShort(intervalTime, elapsed) == intervalTime < elapsed

\* the wait without lines 524-528
WaitTimeUnchecked(intervalTime, elapsed) == intervalTime - elapsed

\* lines 523-528
WaitTime(intervalTime, elapsed) ==
    IF IntervalTooShort(intervalTime, elapsed) THEN elapsed ELSE intervalTime - elapsed

\* lines 515-528: the elapsed time is what the clock says, time.time() is not monotonic
MeasureTick ==
    /\ pc = "timing"
    /\ \E elapsed \in (-1)..MaxElapsed :
        /\ time_difference' = elapsed
        /\ warned' = IntervalTooShort(interval, elapsed)
        /\ wait_time' = WaitTime(interval, elapsed)
    /\ pc' = "sleep"
    /\ UNCHANGED <<interval, doNotPost, storageList, task, local, upVars, storeVars, result, obsVars>>

\* line 529: time.sleep raises ValueError on a negative duration; the values of
\* the tick are dead once the loop is back at line 482
Sleep ==
    /\ pc = "sleep"
    /\ pc' = IF wait_time < 0 THEN "terminated" ELSE "tick"
    /\ time_difference' = 0
    /\ wait_time' = 0
    /\ warned' = FALSE
    /\ storageList' = {}
    /\ UNCHANGED <<interval, doNotPost, task, local, upVars, storeVars, result, obsVars>>

----------------------------------------------------------------------------
(* The collectors, each run by a worker of the pool *)

\* lines 240-321: the upstream reads and the points of collect_storage_metrics;
\* a drive whose location does not format raises TypeError at line 271, with
\* the points of the drives before it built
MetricsRead(a) ==
    /\ task["metrics"][a] = "queued"
    /\ WorkerFree
    /\ LET drive_stats_list == driveUp[a]
           bad == FirstUnformatted(drive_stats_list)
       IN IF bad = 0
          THEN /\ task' = [task EXCEPT !["metrics"][a] = "running"]
               /\ local' = [local EXCEPT !["metrics"][a] =
                    [query |-> {}, start_from |-> FROM_BEGINNING,
                     response |-> drive_stats_list,
                     json_body |-> MetricsBody(a, drive_stats_list, volumeUp[a])]]
          ELSE /\ task' = RaiseOutcome("metrics", a)
               /\ local' = [local EXCEPT !["metrics"][a] =
                    [query |-> {}, start_from |-> FROM_BEGINNING,
                     response |-> drive_stats_list,
                     json_body |-> DiskItems(a, SubSeq(drive_stats_list, 1, bad - 1))]]
    /\ UNCHANGED <<pc, schedVars, storageList, upVars, storeVars, result, obsVars>>

\* lines 323-324
MetricsWrite(a) ==
    /\ task["metrics"][a] = "running"
    /\ task' = [task EXCEPT !["metrics"][a] = "done"]
    /\ local' = [local EXCEPT !["metrics"][a] = NoLocal]
    /\ result' = [result EXCEPT !["metrics"][a] = WriteOutcome("metrics")]
    /\ UNCHANGED <<pc, schedVars, storageList, upVars, storeVars, obsVars>>

\* lines 394-442 of collect_system_state: query the store, get the failures, diff
StateRead(a) ==
    /\ task["state"][a] = "queued"
    /\ WorkerFree
    /\ LET query == QueryFailures(a)
           failure_response == failUp[a]
       IN local' = [local EXCEPT !["state"][a] =
                      [query |-> query, start_from |-> FROM_BEGINNING,
                       response |-> failure_response,
                       json_body |-> NewFailures(a, query, failure_response)]]
    /\ task' = [task EXCEPT !["state"][a] = "running"]
    /\ UNCHANGED <<pc, schedVars, storageList, upVars, storeVars, result, obsVars>>

\* a write in a loop: the call is made and the task is still before its write
StateWriteAndRetry(a) ==
    /\ task["state"][a] = "running"
    /\ LET json_body == local["state"][a].json_body
       IN /\ failures' = failures \cup Range(json_body)
          /\ failWrites' = [failWrites EXCEPT ![a] =
                [f \in FailureSet |-> Bump(@[f], Count(json_body, FailureItem(a, f)))]]
    /\ result' = [result EXCEPT !["state"][a] = WriteOutcome("state")]
    /\ UNCHANGED <<pc, schedVars, storageList, task, local, upVars, major_event_log,
                   melWrites, obsVars>>

\* line 447: client.write_points(json_body), whatever its length
StateWrite(a) ==
    /\ task["state"][a] = "running"
    /\ LET json_body == local["state"][a].json_body
       IN /\ failures' = failures \cup Range(json_body)
          /\ failWrites' = [failWrites EXCEPT ![a] =
                [f \in FailureSet |-> Bump(@[f], Count(json_body, FailureItem(a, f)))]]
    /\ task' = [task EXCEPT !["state"][a] = "done"]
    /\ local' = [local EXCEPT !["state"][a] = NoLocal]
    /\ result' = [result EXCEPT !["state"][a] = WriteOutcome("state")]
    /\ UNCHANGED <<pc, schedVars, storageList, upVars, major_event_log, melWrites, obsVars>>

\* lines 335-382 of collect_major_event_log: query the store for the last id,
\* get the events from there, build the points
MelRead(a) ==
    /\ task["mel"][a] = "queued"
    /\ WorkerFree
    /\ \E query \in (IF QueryLastMel(a) = {} THEN {{}}
                     ELSE {{r} : r \in QueryLastMel(a)}) :
        LET start_from == StartFrom(query)
            mel_response == MelEvents(melUp[a], mel_grab_count, start_from)
        IN local' = [local EXCEPT !["mel"][a] =
                       [query |-> query, start_from |-> start_from,
                        response |-> mel_response,
                        json_body |-> MelBody(a, mel_response)]]
    /\ task' = [task EXCEPT !["mel"][a] = "running"]
    /\ UNCHANGED <<pc, schedVars, storageList, upVars, storeVars, result, obsVars>>

\* line 384: client.write_points(json_body)
MelWrite(a) ==
    /\ task["mel"][a] = "running"
    /\ LET json_body == local["mel"][a].json_body
       IN /\ major_event_log' = major_event_log \cup Range(json_body)
          /\ melWrites' = [melWrites EXCEPT ![a] =
                [i \in EventIds |->
                    Bump(@[i], Cardinality({k \in DOMAIN json_body : json_body[k].id = i}))]]
    /\ task' = [task EXCEPT !["mel"][a] = "done"]
    /\ local' = [local EXCEPT !["mel"][a] = NoLocal]
    /\ result' = [result EXCEPT !["mel"][a] = WriteOutcome("mel")]
    /\ UNCHANGED <<pc, schedVars, storageList, upVars, failures, failWrites, obsVars>>

\* a collector raises before its write returns (an upstream or store call fails,
\* a field is missing): except RuntimeError does not catch it, the worker keeps
\* the exception in the future and nothing is written
TaskRaise(kind, a) ==
    /\ task[kind][a] = "running"
    /\ task' = RaiseOutcome(kind, a)
    /\ local' = [local EXCEPT ![kind][a] = NoLocal]
    /\ UNCHANGED <<pc, schedVars, storageList, upVars, storeVars, result, obsVars>>

\* lines 326-327, 385-386, 448-449: a RuntimeError is caught and logged with the
\* name and the id of the array; the call returns, nothing is written
TaskRuntimeError(kind, a) ==
    /\ task[kind][a] = "running"
    /\ task' = [task EXCEPT ![kind][a] = "done"]
    /\ result' = [result EXCEPT ![kind][a] = "caught"]
    /\ local' = [local EXCEPT ![kind][a] = NoLocal]
    /\ UNCHANGED <<pc, schedVars, storageList, upVars, storeVars, obsVars>>

HungTasks == {ks \in Phases \X Systems : task[ks[1]][ks[2]] = "hung"}

\* lines 256, 356, 410: session.get has no timeout; an array that accepts the
\* connection and never answers keeps the call, and its worker, for ever
TaskHangs(kind, a) ==
    /\ task[kind][a] = "running"
    /\ Cardinality(HungTasks) < MaxHung
    /\ task' = [task EXCEPT ![kind][a] = "hung"]
    /\ UNCHANGED <<pc, schedVars, storageList, local, upVars, storeVars, result, obsVars>>

\* lines 244, 339, 398: sys is a key of the error body, sys["id"] raises TypeError
CollectOnKey(kind) ==
    /\ task[kind][BadKey] = "queued"
    /\ WorkerFree
    /\ task' = RaiseOutcome(kind, BadKey)
    /\ UNCHANGED <<pc, schedVars, storageList, local, upVars, storeVars, result, obsVars>>

----------------------------------------------------------------------------
(* The upstream; it changes between the reads of the collectors, and a        *)
(* collector reads each upstream list once per tick, so the changes are taken *)
(* between two ticks                                                          *)

\* the array logs a new event: the next sequence number, a timestamp not
\* before the last one (several events may fall in one second)
UpstreamLogsEvent(a, t) ==
    /\ pc = "tick"
    /\ TotalEvents < MaxEvents
    /\ Len(melUp[a]) > 0 => t >= melUp[a][Len(melUp[a])].timeStamp
    /\ melUp' = [melUp EXCEPT ![a] =
                   Append(@, [id |-> FirstSeq + Len(@), timeStamp |-> t])]
    /\ UNCHANGED <<pc, schedVars, storageList, task, local, failUp, driveUp, volumeUp, storeVars, result, obsVars>>

\* the failures the array reports change
UpstreamFailuresChange(a, list) ==
    /\ pc = "tick"
    /\ list # failUp[a]
    /\ \A b \in Arrays \ {a} : Len(list) + Len(failUp[b]) <= MaxFailures
    /\ failUp' = [failUp EXCEPT ![a] = list]
    /\ UNCHANGED <<pc, schedVars, storageList, task, local, melUp, driveUp, volumeUp, storeVars, result, obsVars>>

\* a failure appears on the array: its list has one more entry
FailureAppears(a, f) ==
    /\ pc = "tick"
    /\ f \notin Range(failUp[a])
    /\ \A b \in Arrays \ {a} : Len(failUp[a]) + 1 + Len(failUp[b]) <= MaxFailures
    /\ failUp' = [failUp EXCEPT ![a] = Append(@, f)]
    /\ UNCHANGED <<pc, schedVars, storageList, task, local, melUp, driveUp, volumeUp,
                   storeVars, result, obsVars>>

\* a failure of the array is resolved: its list no longer has the entry; when
\* the store has the row of the failure, it is one that was stored and is gone
FailureResolves(a, f) ==
    /\ pc = "tick"
    /\ f \in Range(failUp[a])
    /\ failUp' = [failUp EXCEPT ![a] = SelectSeq(@, LAMBDA x : x # f)]
    /\ gone' = [gone EXCEPT ![a] = IF FailureItem(a, f) \in failures THEN @ \cup {f} ELSE @]
    /\ UNCHANGED <<pc, schedVars, storageList, task, local, melUp, driveUp, volumeUp,
                   storeVars, result, restarted>>

\* a failure appears on the array and the array logs it: its failure list has
\* one more entry and its event log one more event
FailureLogged(a, f, t) ==
    /\ pc = "tick"
    /\ f \notin Range(failUp[a])
    /\ \A b \in Arrays \ {a} : Len(failUp[a]) + 1 + Len(failUp[b]) <= MaxFailures
    /\ TotalEvents < MaxEvents
    /\ Len(melUp[a]) > 0 => t >= melUp[a][Len(melUp[a])].timeStamp
    /\ failUp' = [failUp EXCEPT ![a] = Append(@, f)]
    /\ melUp' = [melUp EXCEPT ![a] =
                   Append(@, [id |-> FirstSeq + Len(@), timeStamp |-> t])]
    /\ UNCHANGED <<pc, schedVars, storageList, task, local, driveUp, volumeUp,
                   storeVars, result, obsVars>>

\* the array reports one more drive: its statistics, and where the hardware
\* inventory puts it
UpstreamAddsDrive(a, has, where) ==
    /\ pc = "tick"
    /\ \A b \in Arrays \ {a} : Len(driveUp[a]) + 1 + Len(driveUp[b]) <= MaxDrives
    /\ driveUp' = [driveUp EXCEPT ![a] =
                     Append(@, [diskId |-> Len(@) + 1, has |-> has, where |-> where])]
    /\ UNCHANGED <<pc, schedVars, storageList, task, local, melUp, failUp, volumeUp,
                   storeVars, result, obsVars>>

\* the array reports one more volume
UpstreamAddsVolume(a, has) ==
    /\ pc = "tick"
    /\ \A b \in Arrays \ {a} : Len(volumeUp[a]) + 1 + Len(volumeUp[b]) <= MaxVolumes
    /\ volumeUp' = [volumeUp EXCEPT ![a] =
                      Append(@, [volumeName |-> Len(@) + 1, has |-> has])]
    /\ UNCHANGED <<pc, schedVars, storageList, task, local, melUp, failUp, driveUp,
                   storeVars, result, obsVars>>

\* the process is killed, at any point of a tick or between ticks, and started
\* again with the same command line: the loop, the pool and the tasks are
\* gone, the store and the arrays are as they were
Restart ==
    /\ pc' = "tick"
    /\ time_difference' = 0
    /\ wait_time' = 0
    /\ warned' = FALSE
    /\ storageList' = {}
    /\ task' = [k \in Phases |-> [s \in Systems |-> "none"]]
    /\ local' = [k \in Phases |-> [s \in Systems |-> NoLocal]]
    /\ result' = [k \in Phases |-> [s \in Systems |-> "none"]]
    /\ restarted' = TRUE
    /\ UNCHANGED <<interval, doNotPost, upVars, storeVars, gone>>

----------------------------------------------------------------------------
\* the steps of the loop
LoopNext ==
    \/ ListOk
    \/ WaitMetrics
    \/ WaitState
    \/ WaitMel
    \/ MeasureTick
    \/ Sleep

\* the steps of the workers when every call succeeds
WorkNext ==
    \/ \E a \in Arrays : MetricsRead(a)
    \/ \E a \in Arrays : MetricsWrite(a)
    \/ \E a \in Arrays : StateRead(a)
    \/ \E a \in Arrays : StateWrite(a)
    \/ \E a \in Arrays : MelRead(a)
    \/ \E a \in Arrays : MelWrite(a)

\* the steps that an error takes
ErrorNext ==
    \/ ListNon200Json
    \/ ListNon200NotJson
    \/ ListRaises
    \/ \E kind \in Phases : CollectOnKey(kind)
    \/ \E kind \in Phases, a \in Arrays : TaskRaise(kind, a)

SchedNext == LoopNext \/ WorkNext \/ ErrorNext

\* an upstream call never returns
HangNext == \E kind \in Phases, a \in Arrays : TaskHangs(kind, a)

EventNext == \E a \in Registered, t \in 1..MaxTime : UpstreamLogsEvent(a, t)

FailureNext ==
    \E a \in Registered, list \in SeqsUpTo(FailureSet, MaxFailures) :
        UpstreamFailuresChange(a, list)

\* what an array reports of an object: every metric, or only some
Reported(params) == {params, {"readIOps"}}

InventoryNext ==
    \/ \E a \in Registered, has \in Reported(DRIVE_PARAMS), where \in {"tray", "no_tray", "absent"} :
        UpstreamAddsDrive(a, has, where)
    \/ \E a \in Registered, has \in Reported(VOLUME_PARAMS) : UpstreamAddsVolume(a, has)

\* a task ends in the RuntimeError its handler catches
CaughtNext == \E kind \in Phases, a \in Arrays : TaskRuntimeError(kind, a)

\* the collector with an upstream that does not change
SpecSched == Init /\ [][SchedNext]_vars

\* the collector with arrays that log events
SpecMel == Init /\ [][SchedNext \/ EventNext]_vars

\* the collector with arrays whose failures come and go
SpecState == Init /\ [][SchedNext \/ FailureNext]_vars

\* the collector killed and started again, with arrays that log events
SpecRestart == Init /\ [][SchedNext \/ EventNext \/ Restart]_vars

\* the failures of the arrays appear, are resolved and appear again
RecurNext ==
    \/ \E a \in Registered, f \in FailureSet : FailureAppears(a, f)
    \/ \E a \in Registered, f \in FailureSet : FailureResolves(a, f)

\* the collector with arrays whose failures are resolved and come back
SpecRecur == Init /\ [][SchedNext \/ RecurNext]_vars

\* the failures of the arrays appear together with their events
LoggedNext ==
    \E a \in Registered, f \in FailureSet, t \in 1..MaxTime : FailureLogged(a, f, t)

\* the collector with arrays that have failures and log them
SpecStores == Init /\ [][SchedNext \/ LoggedNext]_vars

\* the collector with tasks that end in errors of every class
SpecErrors == Init /\ [][SchedNext \/ CaughtNext]_vars

\* the collector started with --doNotPost, with arrays whose failures come and go
SpecDryRun == InitDryRun /\ [][SchedNext \/ FailureNext]_vars

\* the collector with arrays whose drives and volumes are found
SpecMetrics == Init /\ [][SchedNext \/ InventoryNext]_vars

----------------------------------------------------------------------------
(* Failure state, collect_system_state *)

\* C1: for every array and every failure identity tuple, the tuple is written
\* to the store at most once, whatever the upstream failure lists are
FailureWrittenAtMostOnce ==
    \A a \in Arrays, f \in FailureSet : failWrites[a][f] <= 1

\* C5: when collect_system_state has run for an array and its write has
\* returned, a second run against the same upstream failure list and the
\* store as the first run left it has no new failure to write
RerunWritesNothing ==
    [][\A a \in Arrays :
        (task["state"][a] = "running" /\ result'["state"][a] = "wrote")
            => NewFailures(a, QueryFailures(a)', local["state"][a].response) = <<>>]_vars

\* a second run is about to write: the upstream list is not empty, each of its
\* tuples was written once by an earlier run, and the batch is empty
RerunWritesNothingWitness ==
    \E a \in Arrays :
        /\ task["state"][a] = "running"
        /\ local["state"][a].response # <<>>
        /\ local["state"][a].response = failUp[a]
        /\ \A f \in Range(failUp[a]) : failWrites[a][f] >= 1
        /\ local["state"][a].json_body = <<>>

----------------------------------------------------------------------------
(* Event log, collect_major_event_log *)

StoredIds(a) == {r.id : r \in {x \in major_event_log : x.sys_id = a}}

UpstreamIds(a) == {melUp[a][i].id : i \in DOMAIN melUp[a]}

MaxOf(S) == CHOOSE m \in S : \A x \in S : x <= m

\* C2: the request of collect_major_event_log starts at the maximum stored
\* sequence id of the array plus one, and at -1 when nothing is stored
StartsAfterMaxStored ==
    \A a \in Arrays :
        task["mel"][a] = "running" =>
            local["mel"][a].start_from =
                IF StoredIds(a) = {} THEN FROM_BEGINNING ELSE MaxOf(StoredIds(a)) + 1

\* C3: no event id is written twice for the same array
EventWrittenAtMostOnce ==
    \A a \in Arrays, i \in EventIds : melWrites[a][i] <= 1

\* the collector when every upstream and store call succeeds: the loop and the
\* workers keep taking their steps
FairSpecMel ==
    /\ Init
    /\ [][LoopNext \/ WorkNext \/ EventNext]_vars
    /\ WF_vars(LoopNext \/ WorkNext)

\* C4: every event accumulated upstream is eventually stored, in batches of
\* at most the ceiling, when the upstream and store calls succeed
BacklogEventuallyStored ==
    \A a \in Arrays, i \in EventIds :
        (i \in UpstreamIds(a)) ~> (i \in StoredIds(a))

\* the safe part of C4: a request never returns more than the ceiling
BatchWithinCeiling ==
    \A a \in Arrays : Len(local["mel"][a].json_body) <= mel_grab_count

----------------------------------------------------------------------------
(* The loop and the pool *)

Begun(kind) == {s \in Systems : task[kind][s] \in {"running", "done", "raised"}}

Unfinished(kind) == {s \in Systems : task[kind][s] \in {"queued", "running", "hung"}}

\* C6: within a tick no failure-state task has begun while a system-metrics
\* task is unfinished, and no event-log task has begun while a failure-state
\* (or system-metrics) task is unfinished
PhasesInSequence ==
    /\ Begun("state") # {} => Unfinished("metrics") = {}
    /\ Begun("mel") # {} => Unfinished("state") = {} /\ Unfinished("metrics") = {}

\* an event-log task runs, after the metrics and the state tasks of the tick
PhasesInSequenceWitness ==
    /\ pc = "mel"
    /\ \E a \in Arrays : task["mel"][a] = "running"
    /\ \E a \in Arrays : task["mel"][a] = "done"

\* the collector with an upstream that does not change; the loop and the
\* workers keep taking their steps, and a call may raise instead of returning
FairSpecSched ==
    /\ Init
    /\ [][SchedNext]_vars
    /\ WF_vars(LoopNext \/ WorkNext \/ \E kind \in Phases : CollectOnKey(kind))

\* C7: every submitted task runs to its own completion, whatever the other
\* tasks of the tick do, and after a task has raised in the first phase the
\* tasks of the later phases are still submitted and complete
TaskIsolation ==
    /\ \A kind \in Phases, s \in Systems :
        (task[kind][s] = "queued") ~> (task[kind][s] \in {"done", "raised"})
    /\ \A s \in Systems :
        (task["metrics"][s] = "raised") ~> (pc = "mel" /\ AllCompleted("mel"))

\* one array's task has raised and the other array's task of the same phase
\* has returned
TaskIsolationWitness ==
    \E kind \in Phases, a, b \in Arrays :
        a # b /\ task[kind][a] = "raised" /\ task[kind][b] = "done"

\* C8: nothing terminates the loop
LoopNeverTerminates == pc # "terminated"

\* C9, as stated: with elapsed time e and interval i, a warning and a sleep of
\* e when e >= i, no warning and a sleep of i - e otherwise
SleepAsStated ==
    pc = "sleep" =>
        IF time_difference >= interval
        THEN warned /\ wait_time = time_difference
        ELSE ~warned /\ wait_time = interval - time_difference

\* C9, amended: the line is logged and the sleep is e when e > i; otherwise
\* nothing is logged and the sleep is i - e
SleepAsCoded ==
    pc = "sleep" =>
        IF time_difference > interval
        THEN warned /\ wait_time = time_difference
        ELSE ~warned /\ wait_time = interval - time_difference

\* the tick took exactly the interval: nothing logged, a sleep of zero
SleepAsCodedWitness ==
    pc = "sleep" /\ time_difference = interval /\ ~warned /\ wait_time = 0

\* C10: the duration passed to sleep is never negative
SleepNeverNegative == pc = "sleep" => wait_time >= 0

\* an overrun: the tick took longer than the interval and sleeps that long
SleepNeverNegativeWitness ==
    pc = "sleep" /\ time_difference > interval /\ wait_time = time_difference

----------------------------------------------------------------------------
(* The dry run *)

\* C11: when the collector is started with the do-not-write flag, no collector
\* writes to the store in any tick: no task ends with a write call and the
\* store holds no row
DryRunWritesNothing ==
    doNotPost =>
        /\ \A kind \in Phases, s \in Systems : result[kind][s] # "wrote"
        /\ failures = {}
        /\ major_event_log = {}

----------------------------------------------------------------------------
(* The errors of the tasks *)

\* the task ended in an error: its exception left the collector, or its
\* handler caught it
Failed(kind, s) == task[kind][s] = "raised" \/ result[kind][s] = "caught"

\* lines 327, 386, 449: the only LOG.error of a collector is in its handler
Logged(kind, s) == result[kind][s] = "caught"

\* C12: every collector task that ends in an error, whatever the error, has
\* emitted a log line naming the array and the operation
EveryTaskErrorLogged ==
    \A kind \in Phases, s \in Systems : Failed(kind, s) => Logged(kind, s)

----------------------------------------------------------------------------
(* Kill and restart *)

\* C13: after a kill and a restart, a write of collect_major_event_log holds
\* no event id that the store already has for the array
RestartWritesNothingStored ==
    [][restarted =>
        \A a \in Arrays :
            (task["mel"][a] = "running" /\ result'["mel"][a] = "wrote")
                => {p.id : p \in Range(local["mel"][a].json_body)} \cap StoredIds(a) = {}]_vars

----------------------------------------------------------------------------
(* The write of the failures *)

\* C14: when the batch of new failures of collect_system_state is empty, the
\* task makes no write call
EmptyBatchNotWritten ==
    [][\A a \in Arrays :
        (task["state"][a] = "running" /\ local["state"][a].json_body = <<>>)
            => result'["state"][a] # "wrote"]_vars

----------------------------------------------------------------------------
(* The errors of the upstream *)

\* C15: when the request of the array list fails, with a connection error or
\* a status other than 200, nothing derived from its response is submitted
\* to the pool in that tick
NothingSubmittedFromError ==
    /\ BadKey \notin storageList
    /\ \A kind \in Phases : task[kind][BadKey] = "none"

----------------------------------------------------------------------------
(* The points of the metrics *)

\* C16: a drive whose location the hardware inventory does not resolve is not
\* a terminal failure of the metrics task of its array
UnresolvedLocationIsRecoverable ==
    \A a \in Arrays :
        FirstUnformatted(driveUp[a]) # 0 => task["metrics"][a] # "raised"

\* the metric names of a measurement
ParamsOf(measurement) ==
    IF measurement = "disks" THEN DRIVE_PARAMS
    ELSE IF measurement = "systems" THEN SYSTEM_PARAMS ELSE VOLUME_PARAMS

\* the points of a measurement in a batch
PointsOf(json_body, measurement) ==
    {i \in DOMAIN json_body : json_body[i].measurement = measurement}

\* null exactly for the names the record does not have
NullForAbsent(point, stats) ==
    \A metric \in DOMAIN point.fields : (point.fields[metric] = None) <=> (metric \notin stats.has)

\* N disk points, 1 system point and V volume points, each with exactly the
\* names of its measurement
ExactBatch(json_body, drive_stats_list, volume_stats_list) ==
    LET N == Len(drive_stats_list)
        V == Len(volume_stats_list)
    IN /\ PointsOf(json_body, "disks") = 1..N
       /\ PointsOf(json_body, "systems") = {N + 1}
       /\ PointsOf(json_body, "volumes") = (N + 2)..(N + 1 + V)
       /\ Len(json_body) = N + 1 + V
       /\ \A i \in DOMAIN json_body :
            DOMAIN json_body[i].fields = ParamsOf(json_body[i].measurement)
       /\ \A i \in 1..N : NullForAbsent(json_body[i], drive_stats_list[i])
       /\ \A i \in 1..V : NullForAbsent(json_body[N + 1 + i], volume_stats_list[i])

\* C17: for an array with N disk records and V volume records, the batch that
\* collect_storage_metrics has built holds exactly N disk points, 1 system
\* point and V volume points, each with exactly the metric names of its
\* measurement and null for the names its record lacks
MetricsBatchExact ==
    [][\A a \in Arrays :
        (task["metrics"][a] = "queued" /\ task'["metrics"][a] # "queued")
            => ExactBatch(local'["metrics"][a].json_body, driveUp[a], volumeUp[a])]_vars

----------------------------------------------------------------------------
(* The end of a tick *)

\* C18: the loop measures the tick, sleeps and starts the next tick only when
\* no task it has submitted is queued or running, whether the tasks returned
\* or raised; so no task of a tick is left when the next tick submits its own
TickWaitsForTasks ==
    pc \in {"timing", "sleep", "tick"} =>
        \A kind \in Phases, s \in Systems : task[kind][s] \notin {"queued", "running"}

\* the loop is past its last wait in a tick that has submitted tasks for the
\* registered arrays
TickWaitsForTasksWitness ==
    /\ pc \in {"timing", "sleep"}
    /\ storageList = Registered
    /\ \A kind \in Phases, s \in Systems : task[kind][s] = "none"

----------------------------------------------------------------------------
(* The pool *)

\* the collector with more arrays than workers and upstream calls that may
\* hang; the workers keep taking their steps
SpecPool ==
    /\ Init
    /\ [][LoopNext \/ ListFleet \/ WorkNext \/ HangNext]_vars
    /\ WF_vars(WorkNext)

\* C19: at every moment at most NUMBER_OF_THREADS tasks execute, whatever the
\* number of arrays, and while a task hangs in its slot every queued task is
\* still started by the remaining slots
PoolBounded ==
    /\ [](Cardinality(RunningTasks) <= NUMBER_OF_THREADS)
    /\ \A kind \in Phases, s \in Systems :
        (HungTasks # {} /\ task[kind][s] = "queued") ~> (task[kind][s] # "queued")

\* with more arrays than workers: one task hangs, one has returned, and the
\* task that had to wait for a worker runs
PoolBoundedWitness ==
    \E kind \in Phases, a, b, c \in Arrays :
        /\ task[kind][a] = "hung"
        /\ task[kind][b] = "done"
        /\ task[kind][c] = "running"
        /\ Cardinality(RunningTasks) = NUMBER_OF_THREADS

----------------------------------------------------------------------------
(* The failures that come back *)

\* C20: no step takes a row out of the stored failures, and a failure that
\* was stored, has disappeared from the array's list and is listed again is
\* not in the batch that collect_system_state writes
FailuresKeptAndNotRewritten ==
    [][/\ failures \subseteq failures'
       /\ \A a \in Arrays :
            (task["state"][a] = "running" /\ result'["state"][a] = "wrote")
                => \A f \in gone[a] : FailureItem(a, f) \notin Range(local["state"][a].json_body)]_vars

\* a failure that was stored and then resolved is listed again, its row is
\* still in the store and the task is about to write a batch without it
FailuresKeptAndNotRewrittenWitness ==
    \E a \in Arrays, f \in FailureSet :
        /\ f \in gone[a]
        /\ task["state"][a] = "running"
        /\ f \in Range(local["state"][a].response)
        /\ FailureItem(a, f) \in failures
        /\ local["state"][a].json_body = <<>>

----------------------------------------------------------------------------
(* The tasks of one phase *)

\* what collect_system_state writes for an array when it runs alone, from its
\* query to its write, against the store and the array as they are
StateAlone(a) == NewFailures(a, QueryFailures(a), failUp[a])

\* what collect_major_event_log may write for an array when it runs alone
MelAlone(a) ==
    {MelBody(a, MelEvents(melUp[a], mel_grab_count, StartFrom(query))) :
        query \in (IF QueryLastMel(a) = {} THEN {{}} ELSE {{r} : r \in QueryLastMel(a)})}

\* C21: the tasks of a phase read and write the rows of their own array only:
\* whatever the other tasks have done since its reads, a task writes what it
\* would write running alone at that moment, adds rows of its own array only
\* and leaves the other measurement alone, so every interleaving of the tasks
\* leaves the stores as running them one after another does
TasksKeepToTheirArray ==
    [][\A a \in Arrays :
        /\ (task["state"][a] = "running" /\ result'["state"][a] = "wrote") =>
            /\ local["state"][a].json_body = StateAlone(a)
            /\ \A r \in failures' \ failures : r.sys_id = a
            /\ major_event_log' = major_event_log
        /\ (task["mel"][a] = "running" /\ result'["mel"][a] = "wrote") =>
            /\ local["mel"][a].json_body \in MelAlone(a)
            /\ \A r \in major_event_log' \ major_event_log : r.sys_id = a
            /\ failures' = failures]_vars

\* the event-log tasks of two arrays have both made their reads and hold a
\* batch each, after the failure tasks of the tick have stored a row for each
\* of the two arrays
TasksKeepToTheirArrayWitness ==
    \E a, b \in Arrays :
        /\ a # b
        /\ task["mel"][a] = "running" /\ local["mel"][a].json_body # <<>>
        /\ task["mel"][b] = "running" /\ local["mel"][b].json_body # <<>>
        /\ QueryFailures(a) # {} /\ QueryFailures(b) # {}

----------------------------------------------------------------------------
(* The one write of a task *)

\* the step is the write call of the task
Writes(kind, s) == result'[kind][s] = "wrote" /\ result[kind][s] # "wrote"

\* C22: a task makes its write call at most once, as its last step after its
\* reads and the construction of its points; the store changes in such a step
\* only; a task that fails has written nothing and its step of failure writes
\* nothing; a task that has failed or returned is not run again in the tick
OneWriteAfterReads ==
    [][/\ \A kind \in Phases, s \in Systems :
            Writes(kind, s) => task[kind][s] = "running" /\ task'[kind][s] = "done"
       /\ storeVars' # storeVars => \E kind \in Phases, s \in Systems : Writes(kind, s)
       /\ \A kind \in Phases, s \in Systems :
            /\ task[kind][s] = "raised" =>
                result[kind][s] # "wrote" /\ task'[kind][s] \in {"raised", "none"}
            /\ (task'[kind][s] = "raised" /\ task[kind][s] # "raised") => storeVars' = storeVars
            /\ task[kind][s] = "done" => task'[kind][s] \in {"done", "none"}]_vars

\* a task has failed after its reads, with a failure of its array to store:
\* the store has no row of the array, while the task of the other array has
\* made its write
OneWriteAfterReadsWitness ==
    \E a, b \in Arrays :
        /\ task["state"][a] = "raised"
        /\ failUp[a] # <<>>
        /\ QueryFailures(a) = {}
        /\ result["state"][b] = "wrote"
        /\ QueryFailures(b) # {}

====
